---------------------------- MODULE Spec2Model ----------------------------
(***************************************************************************)
(* A model of SiteSpecter (src/sitespecter.py): the URL normalizer, the    *)
(* URL-to-path mapper and the breadth-first crawl loop of crawl_and_save.  *)
(*                                                                         *)
(* A URL (a Python str) is a sequence of one-character strings.  The       *)
(* urllib.parse functions the program calls are modelled by what CPython   *)
(* 3.11 does on such sequences; ';' (path parameters), '[' ']' and         *)
(* whitespace are outside the alphabet of the inputs.                      *)
(***************************************************************************)
EXTENDS Integers, Sequences, FiniteSets, TLC

(***************************************************************************)
(* Characters                                                              *)
(***************************************************************************)
LowerLetters ==
    << "a", "b", "c", "d", "e", "f", "g", "h", "i", "j", "k", "l", "m",
       "n", "o", "p", "q", "r", "s", "t", "u", "v", "w", "x", "y", "z" >>

UpperLetters ==
    << "A", "B", "C", "D", "E", "F", "G", "H", "I", "J", "K", "L", "M",
       "N", "O", "P", "Q", "R", "S", "T", "U", "V", "W", "X", "Y", "Z" >>

DigitChars ==
    << "0", "1", "2", "3", "4", "5", "6", "7", "8", "9" >>

\* The ASCII punctuation the model uses, with its code point.
Punctuation ==
    { <<" ", 32>>, <<"#", 35>>, <<"%", 37>>, <<"&", 38>>, <<"+", 43>>,
      <<"-", 45>>, <<".", 46>>, <<"/", 47>>, <<":", 58>>, <<"=", 61>>,
      <<"?", 63>>, <<"_", 95>>, <<"~", 126>> }

Range(s) == { s[i] : i \in DOMAIN s }

IndexIn(s, c) == CHOOSE i \in DOMAIN s : s[i] = c

IsAlnum(c) == c \in Range(LowerLetters) \cup Range(UpperLetters) \cup Range(DigitChars)

\* ord(c)
CharCode(c) ==
    IF c \in Range(LowerLetters) THEN 96 + IndexIn(LowerLetters, c)
    ELSE IF c \in Range(UpperLetters) THEN 64 + IndexIn(UpperLetters, c)
    ELSE IF c \in Range(DigitChars) THEN 47 + IndexIn(DigitChars, c)
    ELSE (CHOOSE p \in Punctuation : p[1] = c)[2]

KnownCodes ==
    (97 .. 122) \cup (65 .. 90) \cup (48 .. 57) \cup { p[2] : p \in Punctuation }

\* chr(n), for the code points of the model's alphabet
CodeChar(n) ==
    IF n \in 97 .. 122 THEN LowerLetters[n - 96]
    ELSE IF n \in 65 .. 90 THEN UpperLetters[n - 64]
    ELSE IF n \in 48 .. 57 THEN DigitChars[n - 47]
    ELSE (CHOOSE p \in Punctuation : p[2] = n)[1]

\* str.lower() on one character
LowerChar(c) ==
    IF c \in Range(UpperLetters) THEN LowerLetters[IndexIn(UpperLetters, c)] ELSE c

(***************************************************************************)
(* Strings                                                                 *)
(***************************************************************************)
Take(s, n) == SubSeq(s, 1, n)

Drop(s, n) == SubSeq(s, n + 1, Len(s))

\* str.find: the least index >= from holding c, or 0 when there is none
Find(s, c, from) ==
    IF \E i \in from .. Len(s) : s[i] = c
    THEN CHOOSE i \in from .. Len(s) : s[i] = c /\ \A j \in from .. i - 1 : s[j] # c
    ELSE 0

\* str.rfind: the greatest index holding c, or 0
RFind(s, c) ==
    IF \E i \in 1 .. Len(s) : s[i] = c
    THEN CHOOSE i \in 1 .. Len(s) : s[i] = c /\ \A j \in i + 1 .. Len(s) : s[j] # c
    ELSE 0

EndsWith(s, c) == Len(s) > 0 /\ s[Len(s)] = c

\* str.lstrip(c)
RECURSIVE LStrip(_, _)
LStrip(s, c) == IF Len(s) > 0 /\ s[1] = c THEN LStrip(Tail(s), c) ELSE s

\* str.split(sep) for a one-character separator
RECURSIVE Split(_, _)
Split(s, sep) ==
    IF Find(s, sep, 1) = 0 THEN << s >>
    ELSE << Take(s, Find(s, sep, 1) - 1) >> \o Split(Drop(s, Find(s, sep, 1)), sep)

\* str < str, by code point
RECURSIVE StrLess(_, _)
StrLess(a, b) ==
    IF Len(b) = 0 THEN FALSE
    ELSE IF Len(a) = 0 THEN TRUE
    ELSE IF a[1] = b[1] THEN StrLess(Tail(a), Tail(b))
    ELSE CharCode(a[1]) < CharCode(b[1])

(***************************************************************************)
(* urllib.parse                                                            *)
(***************************************************************************)
\* urllib.parse.scheme_chars
SchemeChars ==
    Range(LowerLetters) \cup Range(UpperLetters) \cup Range(DigitChars) \cup { "+", "-", "." }

HexDigits ==
    << "0", "1", "2", "3", "4", "5", "6", "7", "8", "9", "A", "B", "C", "D", "E", "F" >>

IsHex(c) == c \in Range(HexDigits) \cup { "a", "b", "c", "d", "e", "f" }

HexVal(c) ==
    IF c \in Range(HexDigits) THEN IndexIn(HexDigits, c) - 1
    ELSE CharCode(c) - 87

\* urlsplit: the index of the ':' that ends a scheme, or 0; colon = url.find(':')
SchemeColon(url, colon) ==
    IF /\ colon > 1
       /\ url[1] \in Range(LowerLetters) \cup Range(UpperLetters)
       /\ \A i \in 1 .. colon - 1 : url[i] \in SchemeChars
    THEN colon
    ELSE 0

\* urlsplit: scheme, url = url[:i].lower(), url[i+1:]
AfterScheme(url, colon) ==
    [ scheme |-> IF colon > 0 THEN [ i \in 1 .. colon - 1 |-> LowerChar(url[i]) ] ELSE << >>,
      rest |-> IF colon > 0 THEN Drop(url, colon) ELSE url ]

\* _splitnetloc: the index of the first of '/?#' from index 3 on, or len + 1
NetlocEnd(r) ==
    IF \E i \in 3 .. Len(r) : r[i] \in { "/", "?", "#" }
    THEN CHOOSE i \in 3 .. Len(r) :
            /\ r[i] \in { "/", "?", "#" }
            /\ \A j \in 3 .. i - 1 : r[j] \notin { "/", "?", "#" }
    ELSE Len(r) + 1

\* urlsplit: if url[:2] == '//': netloc, url = _splitnetloc(url, 2)
AfterNetloc(p, end) ==
    IF Len(p.rest) >= 2 /\ p.rest[1] = "/" /\ p.rest[2] = "/"
    THEN [ scheme |-> p.scheme, netloc |-> SubSeq(p.rest, 3, end - 1),
           rest |-> Drop(p.rest, end - 1) ]
    ELSE [ scheme |-> p.scheme, netloc |-> << >>, rest |-> p.rest ]

\* urlsplit: if '#' in url: url, fragment = url.split('#', 1)
AfterFragment(p, hash) ==
    [ scheme |-> p.scheme, netloc |-> p.netloc,
      fragment |-> IF hash > 0 THEN Drop(p.rest, hash) ELSE << >>,
      rest |-> IF hash > 0 THEN Take(p.rest, hash - 1) ELSE p.rest ]

\* urlsplit: if '?' in url: url, query = url.split('?', 1)
AfterQuery(p, qm) ==
    [ scheme |-> p.scheme, netloc |-> p.netloc,
      path |-> IF qm > 0 THEN Take(p.rest, qm - 1) ELSE p.rest,
      query |-> IF qm > 0 THEN Drop(p.rest, qm) ELSE << >>,
      fragment |-> p.fragment ]

SplitScheme(url) == AfterScheme(url, SchemeColon(url, Find(url, ":", 1)))

SplitNetloc(p) == AfterNetloc(p, NetlocEnd(p.rest))

SplitFragment(p) == AfterFragment(p, Find(p.rest, "#", 1))

SplitQuery(p) == AfterQuery(p, Find(p.rest, "?", 1))

\* urlsplit / urlparse: (scheme, netloc, path, query, fragment)
urlparse(url) == SplitQuery(SplitFragment(SplitNetloc(SplitScheme(url))))

\* urlunsplit: the '//' netloc part, for a netloc or a scheme that uses one
UnsplitNetloc(p) ==
    IF Len(p.netloc) > 0
       \/ (p.scheme = << "h", "t", "t", "p" >> /\ Take(p.path, 2) # << "/", "/" >>)
    THEN << "/", "/" >> \o p.netloc
         \o (IF Len(p.path) > 0 /\ p.path[1] # "/" THEN << "/" >> ELSE << >>)
         \o p.path
    ELSE p.path

\* urlunsplit / urlunparse / ParseResult.geturl()
geturl(p) ==
    (IF Len(p.scheme) > 0 THEN p.scheme \o << ":" >> ELSE << >>)
        \o UnsplitNetloc(p)
        \o (IF Len(p.query) > 0 THEN << "?" >> \o p.query ELSE << >>)
        \o (IF Len(p.fragment) > 0 THEN << "#" >> \o p.fragment ELSE << >>)

\* urldefrag(url)[0]
urldefrag(url) ==
    IF Find(url, "#", 1) > 0
    THEN geturl([ urlparse(url) EXCEPT !.fragment = << >> ])
    ELSE url

\* The value of the escape %XY at the head of s, or -1 when s has none the
\* model's alphabet can hold.
EscapeAt(s) ==
    IF /\ Len(s) >= 3
       /\ s[1] = "%"
       /\ IsHex(s[2])
       /\ IsHex(s[3])
       /\ 16 * HexVal(s[2]) + HexVal(s[3]) \in KnownCodes
    THEN 16 * HexVal(s[2]) + HexVal(s[3])
    ELSE -1

\* urllib.parse.unquote, after parse_qsl's replace('+', ' ')
RECURSIVE unquote(_)
unquote(s) ==
    IF Len(s) = 0 THEN << >>
    ELSE IF EscapeAt(s) >= 0 THEN << CodeChar(EscapeAt(s)) >> \o unquote(Drop(s, 3))
    ELSE << (IF s[1] = "+" THEN " " ELSE s[1]) >> \o unquote(Tail(s))

\* urllib.parse.quote_plus of one character, safe = ''
QuoteChar(c) ==
    IF IsAlnum(c) \/ c \in { "_", ".", "-", "~" } THEN << c >>
    ELSE IF c = " " THEN << "+" >>
    ELSE << "%", HexDigits[(CharCode(c) \div 16) + 1], HexDigits[(CharCode(c) % 16) + 1] >>

RECURSIVE quote_plus(_)
quote_plus(s) == IF Len(s) = 0 THEN << >> ELSE QuoteChar(s[1]) \o quote_plus(Tail(s))

\* parse_qsl: one name=value field, split at its first '=' (index eq, 0 if none)
QslPair(nv, eq) ==
    << unquote(IF eq > 0 THEN Take(nv, eq - 1) ELSE nv),
       unquote(IF eq > 0 THEN Drop(nv, eq) ELSE << >>) >>

\* parse_qsl(qs, keep_blank_values=True): a list of (name, value) pairs
RECURSIVE QslOf(_)
QslOf(fields) ==
    IF Len(fields) = 0 THEN << >>
    ELSE (IF Len(Head(fields)) = 0 THEN << >>
          ELSE << QslPair(Head(fields), Find(Head(fields), "=", 1)) >>)
         \o QslOf(Tail(fields))

parse_qsl(qs) == IF Len(qs) = 0 THEN << >> ELSE QslOf(Split(qs, "&"))

\* tuple comparison of two (name, value) pairs
PairLess(a, b) == StrLess(a[1], b[1]) \/ (a[1] = b[1] /\ StrLess(a[2], b[2]))

\* list.sort() on the pairs
RECURSIVE InsertPair(_, _)
InsertPair(p, sorted) ==
    IF Len(sorted) = 0 THEN << p >>
    ELSE IF PairLess(p, Head(sorted)) THEN << p >> \o sorted
    ELSE << Head(sorted) >> \o InsertPair(p, Tail(sorted))

RECURSIVE SortPairs(_)
SortPairs(pairs) ==
    IF Len(pairs) = 0 THEN << >>
    ELSE InsertPair(pairs[Len(pairs)], SortPairs(Take(pairs, Len(pairs) - 1)))

\* urlencode(pairs)
RECURSIVE urlencode(_)
urlencode(pairs) ==
    IF Len(pairs) = 0 THEN << >>
    ELSE quote_plus(Head(pairs)[1]) \o << "=" >> \o quote_plus(Head(pairs)[2])
         \o (IF Len(pairs) > 1 THEN << "&" >> ELSE << >>)
         \o urlencode(Tail(pairs))

(***************************************************************************)
(* normalize_url                                                           *)
(***************************************************************************)
\* Lines 67-69: keep '/' as '/', otherwise strip one trailing slash
StripSlash(path) ==
    IF path # << "/" >> /\ EndsWith(path, "/") THEN Take(path, Len(path) - 1) ELSE path

\* Lines 62-71 on the parsed URL
Canonical(parsed) ==
    geturl([ parsed EXCEPT
                !.path = StripSlash(IF Len(parsed.path) = 0 THEN << "/" >> ELSE parsed.path),
                !.query = urlencode(SortPairs(parse_qsl(parsed.query))) ])

normalize_url(url) == Canonical(urlparse(urldefrag(url)))

(***************************************************************************)
(* safe_filename_from_url                                                  *)
(***************************************************************************)
\* the [:180] of the sanitized query
QueryTrunc == 180

\* the characters re.sub(r"[^a-zA-Z0-9._-]+", ...) keeps
FileSafe(c) == IsAlnum(c) \/ c \in { ".", "_", "-" }

\* re.sub(r"[^a-zA-Z0-9._-]+", "_", s): every run of other characters becomes one "_"
RECURSIVE SkipUnsafe(_)
SkipUnsafe(s) == IF Len(s) > 0 /\ ~FileSafe(s[1]) THEN SkipUnsafe(Tail(s)) ELSE s

RECURSIVE Sanitize(_)
Sanitize(s) ==
    IF Len(s) = 0 THEN << >>
    ELSE IF FileSafe(s[1]) THEN << s[1] >> \o Sanitize(Tail(s))
    ELSE << "_" >> \o Sanitize(SkipUnsafe(s))

\* s[:n]
Truncate(s, n) == IF Len(s) > n THEN Take(s, n) ELSE s

\* pathlib: the parts of Path(s) for a relative s ('' and '.' parts are dropped)
RECURSIVE KeepParts(_)
KeepParts(segs) ==
    IF Len(segs) = 0 THEN << >>
    ELSE (IF Head(segs) = << >> \/ Head(segs) = << "." >> THEN << >> ELSE << Head(segs) >>)
         \o KeepParts(Tail(segs))

PathParts(s) == KeepParts(Split(s, "/"))

\* The index of the dot that starts the suffix of a file name, or 0
SuffixDot(name, dot) == IF 1 < dot /\ dot < Len(name) THEN dot ELSE 0

DotOf(name) == SuffixDot(name, RFind(name, "."))

\* PurePath.suffix and PurePath.stem of a file name
Suffix(name) == IF DotOf(name) > 0 THEN Drop(name, DotOf(name) - 1) ELSE << >>

Stem(name) == IF DotOf(name) > 0 THEN Take(name, DotOf(name) - 1) ELSE name

\* str(Path): the parts joined by "/"
RECURSIVE JoinParts(_)
JoinParts(parts) ==
    IF Len(parts) = 0 THEN << >>
    ELSE Head(parts) \o (IF Len(parts) > 1 THEN << "/" >> ELSE << >>)
         \o JoinParts(Tail(parts))

\* Lines 89-95: the URL path with "index" for a directory
IndexedPath(path) ==
    IF Len(path) = 0 THEN << "/", "i", "n", "d", "e", "x" >>
    ELSE IF EndsWith(path, "/") THEN path \o << "i", "n", "d", "e", "x" >>
    ELSE path

\* Lines 99-100: add .html to a name without suffix
HtmlName(name) ==
    IF Suffix(name) = << >> THEN name \o << ".", "h", "t", "m", "l" >> ELSE name

\* Lines 103-106: splice the sanitized query into the name
QueryName(name, query) ==
    IF Len(query) > 0
    THEN Stem(name) \o << "_", "_", "q", "_" >> \o Truncate(Sanitize(query), QueryTrunc)
         \o Suffix(name)
    ELSE name

\* Lines 98-108 on the parts of the path.  A path whose last part is '.'
\* leaves Path('') and with_suffix raises ValueError: <<"ValueError">>.
LocalPath(parts, query) ==
    IF Len(parts) = 0 THEN << "ValueError" >>
    ELSE JoinParts([ parts EXCEPT ![Len(parts)] = QueryName(HtmlName(parts[Len(parts)]), query) ])

\* The local path of a parsed URL, as str(local_path)
LocalPathOf(parsed) == LocalPath(PathParts(LStrip(IndexedPath(parsed.path), "/")), parsed.query)

safe_filename_from_url(url) == LocalPathOf(urlparse(url))

(***************************************************************************)
(* The crawl: the site, the configuration, the state of crawl_and_save     *)
(***************************************************************************)
Http == << "h", "t", "t", "p", ":", "/", "/" >>

U_root == Http \o << "x", "/" >>

U_bare == Http \o << "x" >>

U_a == Http \o << "x", "/", "a" >>

U_aSlash == Http \o << "x", "/", "a", "/" >>

U_aSlash2 == Http \o << "x", "/", "a", "/", "/" >>

U_bFrag == Http \o << "x", "/", "b", "#", "f" >>

U_c == Http \o << "x", "/", "c" >>

U_off == Http \o << "y", "/", "a" >>

Img1 == Http \o << "x", "/", "i", ".", "p", "n", "g" >>

Img1Frag == Http \o << "x", "/", "i", ".", "p", "n", "g", "#", "f" >>

\* The start URLs the caller may pass.
StartChoices == { U_bare, U_root }

\* The absolute URLs extract_links may return for a page of the site.
RawUrls == { U_root, U_a, U_aSlash, U_aSlash2, U_bFrag, U_c, U_off }

\* Bounds of the configurations and of the pages explored.
MaxDepthBound == 2

MaxPagesBound == 4

\* A start page with three same-origin links and one off-origin link.
ScenarioLinks == { U_a, U_bFrag, U_c, U_off }

\* A page linking back to the start and to two more spellings of /a.
BackLinks == { U_root, U_aSlash, U_aSlash2 }

\* The link sets extract_links may return for a fetched page.
LinkSets == { {}, ScenarioLinks, BackLinks }

\* The image-URL sets extract_image_urls may return for a page.
ImgSets == { {}, { Img1, Img1Frag } }

U_b == Http \o << "x", "/", "b" >>

\* The redirects of the site: (requested URL, resp.url).  /b may answer from
\* /a/, and /c from the other host.
Redirects == { << U_b, U_aSlash >>, << U_c, U_off >> }

RedirectTargets == { r[2] : r \in Redirects }

StatusCodes == { 200, 404 }

ContentTypes == { "text/html; charset=utf-8", "image/png" }

\* The (delay, download_pics) pairs of the configurations explored.
FlagChoices ==
    { [ delay |-> 0, download_pics |-> FALSE ], [ delay |-> 1, download_pics |-> TRUE ] }

VARIABLES
    start_url,          \* normalize_url(start_url), line 260
    max_depth,
    max_pages,
    delay,
    same_domain_only,
    download_pics,
    visited,            \* Set[str]
    queued,             \* Set[str]
    q,                  \* deque[CrawlItem]
    all_image_urls,     \* Set[str]
    saved,
    fetched,
    images_saved,
    pc,                 \* "loop", "done" (returned), "crashed" (uncaught exception);
                        \* "pure" outside a crawl
    gets,               \* history: the (url, depth) of every session.get(url) issued
    attempts,           \* history: the number of session.get(url) calls issued
    appended,           \* history: the URLs put on q
    appends,            \* history: the number of tasks put on q
    last,               \* history: what the last loop iteration did
    start_page,         \* history: final URL and links of the saved depth-0 page
    written,            \* history: the final URLs whose page was written to disk
    landed,             \* history: the final URLs of the redirected responses
    arg,                \* the argument(s) of a pure-function run
    out                 \* the result(s) of a pure-function run

cfgVars == << start_url, max_depth, max_pages, delay, same_domain_only, download_pics >>

crawlVars ==
    << visited, queued, q, all_image_urls, saved, fetched, images_saved,
       gets, attempts, appended, appends, last, start_page, written, landed >>

pureVars == << arg, out >>

vars == << cfgVars, crawlVars, pc, pureVars >>

CrawlItem(url, depth) == [ url |-> url, depth |-> depth ]

\* What one loop iteration met: the task, what session.get gave ("none"
\* when it was not called, "error" for a RequestException, "response"), the
\* response's status, content type and normalized final URL, whether
\* the disk took the file, and whether time.sleep(delay) was called.
Iteration(item, got, status, ctype, final, disk_ok, slept) ==
    [ url |-> item.url, depth |-> item.depth, got |-> got, status |-> status,
      ctype |-> ctype, final |-> final, disk_ok |-> disk_ok, slept |-> slept ]

NoIteration == Iteration([ url |-> << >>, depth |-> 0 ], "none", 0, "", << >>, TRUE, FALSE)

NoPage == [ final |-> << >>, links |-> {}, seen |-> FALSE ]

\* is_html_response: the Content-Type holds text/html or application/xhtml+xml
is_html_response(ctype) ==
    ctype \in { "text/html; charset=utf-8", "application/xhtml+xml" }

\* Every URL the crawl of this site can meet, and its normal form.
SiteUrls ==
    LET met == StartChoices \cup RawUrls \cup RedirectTargets
    IN  met \cup { normalize_url(u) : u \in met }

\* normalize_url and urlparse(url).netloc, tabulated over the site's URLs.
NormalForm == [ u \in SiteUrls |-> normalize_url(u) ]

Netloc == [ u \in SiteUrls |-> urlparse(u).netloc ]

\* same_host answering True for every host.
same_host_Any(url, host) == TRUE

same_host(url, host) == Netloc[url] = host

start_host == Netloc[start_url]

\* crawl_and_save up to the while loop (lines 259-271)
Init ==
    /\ \E s \in StartChoices : start_url = NormalForm[s]
    /\ max_depth \in 0 .. MaxDepthBound
    /\ max_pages \in 1 .. MaxPagesBound
    /\ same_domain_only \in BOOLEAN
    /\ \E flags \in FlagChoices :
        /\ delay = flags.delay
        /\ download_pics = flags.download_pics
    /\ visited = {}
    /\ queued = { start_url }
    /\ q = << CrawlItem(start_url, 0) >>
    /\ all_image_urls = {}
    /\ saved = 0
    /\ fetched = 0
    /\ images_saved = 0
    /\ pc = "loop"
    /\ gets = {}
    /\ attempts = 0
    /\ appended = { start_url }
    /\ appends = 1
    /\ last = NoIteration
    /\ start_page = NoPage
    /\ written = {}
    /\ landed = {}
    /\ arg = << >>
    /\ out = << >>

\* The orders in which "for link in extract_links(...)" may visit a set.
Orders(S) ==
    { o \in [ 1 .. Cardinality(S) -> S ] : \A i, j \in DOMAIN o : o[i] = o[j] => i = j }

LinkOrders == [ S \in LinkSets |-> Orders(S) ]

\* Enqueued without queued.add(link).
Enqueued_Untracked(f, link, depth) ==
    [ queued |-> f.queued,
      q |-> Append(f.q, CrawlItem(link, depth + 1)),
      appended |-> f.appended \cup { link },
      appends |-> f.appends + 1 ]

\* Enqueued with q.appendleft in place of q.append.
Enqueued_Front(f, link, depth) ==
    [ queued |-> f.queued \cup { link },
      q |-> << CrawlItem(link, depth + 1) >> \o f.q,
      appended |-> f.appended \cup { link },
      appends |-> f.appends + 1 ]

\* Lines 326-327: queued.add(link); q.append(CrawlItem(link, depth + 1)),
\* on the frontier f = [queued, q, appended, appends].
Enqueued(f, link, depth) ==
    [ queued |-> f.queued \cup { link },
      q |-> Append(f.q, CrawlItem(link, depth + 1)),
      appended |-> f.appended \cup { link },
      appends |-> f.appends + 1 ]

\* EnqueueLink without the "link in queued" test of line 322.
EnqueueLink_VisitedOnly(f, link, vis, depth) ==
    IF link \in vis THEN f
    ELSE IF same_domain_only /\ ~Netloc[link] = Netloc[start_url] THEN f
    ELSE Enqueued(f, link, depth)

\* Lines 322-327 for one normalized link.
EnqueueLink(f, link, vis, depth) ==
    IF link \in vis \/ link \in f.queued THEN f
    ELSE IF same_domain_only /\ ~same_host(link, start_host) THEN f
    ELSE Enqueued(f, link, depth)

\* Lines 321-327 for one extracted link.
EnqueueOne(f, raw, vis, depth) == EnqueueLink(f, NormalForm[raw], vis, depth)

\* Lines 319-327: the links in the order given.
RECURSIVE EnqueueAll(_, _, _, _)
EnqueueAll(f, order, vis, depth) ==
    IF Len(order) = 0 THEN f
    ELSE EnqueueAll(EnqueueOne(f, Head(order), vis, depth), Tail(order), vis, depth)

\* The while condition with the budget test off by one.
WhileCondition_Inclusive == Len(q) > 0 /\ fetched <= max_pages

\* Line 273: while q and fetched < max_pages
WhileCondition == Len(q) > 0 /\ fetched < max_pages

LoopGuard == pc = "loop" /\ WhileCondition

\* The status test taking server errors only.
IsErrorStatus_ServerOnly(status) == status >= 500

\* Line 294: resp.status_code >= 400
IsErrorStatus(status) == status >= 400

\* The depth test off by one.
FollowLinks_Inclusive(depth) == depth <= max_depth

\* Line 319: depth < max_depth
FollowLinks(depth) == depth < max_depth

\* resp.url: the requested URL, or where the redirects ended
FinalUrls(url) == { url } \cup { r[2] : r \in { x \in Redirects : x[1] = url } }

\* Lines 278-283: the task is dropped without a GET, because its URL is
\* visited already or, once marked visited, lies on another host.
Skipped(item) ==
    \/ item.url \in visited
    \/ same_domain_only /\ ~same_host(item.url, start_host)

\* Lines 274-283: a dropped task.
SkipTask ==
    /\ LoopGuard
    /\ Skipped(Head(q))
    /\ q' = Tail(q)
    /\ visited' = visited \cup { Head(q).url }
    /\ last' = Iteration(Head(q), "none", 0, "", << >>, TRUE, FALSE)
    /\ UNCHANGED << cfgVars, queued, all_image_urls, saved, fetched, images_saved,
                    pc, gets, attempts, appended, appends, start_page, written, landed,
                    pureVars >>

\* What lines 274-286 require before session.get(url) is called.
GetGuard == LoopGuard /\ ~Skipped(Head(q))

\* session.get(url) is issued (line 286).
IssueGet ==
    /\ gets' = gets \cup { [ url |-> Head(q).url, depth |-> Head(q).depth ] }
    /\ attempts' = attempts + 1

\* FetchError retrying: the failed task goes back on the queue, unvisited.
FetchError_Retry ==
    /\ LoopGuard
    /\ ~(Head(q).url \in visited)
    /\ q' = Append(Tail(q), Head(q))
    /\ last' = Iteration(Head(q), "error", 0, "", << >>, TRUE, FALSE)
    /\ UNCHANGED << cfgVars, visited, queued, all_image_urls, saved, fetched,
                    images_saved, pc, gets, attempts, appended, appends, start_page,
                    written, landed, pureVars >>

\* Lines 286, 332-335: session.get raises requests.RequestException.
FetchError ==
    /\ GetGuard
    /\ IssueGet
    /\ q' = Tail(q)
    /\ visited' = visited \cup { Head(q).url }
    /\ last' = Iteration(Head(q), "error", 0, "", << >>, TRUE, FALSE)
    /\ UNCHANGED << cfgVars, queued, all_image_urls, saved, fetched,
                    images_saved, pc, appended, appends, start_page, written, landed,
                    pureVars >>

\* Responded without lines 290-292: the final URL is not marked visited.
Responded_UrlOnly(final) ==
    /\ IssueGet
    /\ fetched' = fetched + 1
    /\ visited' = visited \cup { Head(q).url }
    /\ landed' = IF final = Head(q).url THEN landed ELSE landed \cup { final }

\* Lines 286-292: a response arrived; the final URL is normalized and visited.
Responded(final) ==
    /\ IssueGet
    /\ fetched' = fetched + 1
    /\ visited' = visited \cup { Head(q).url, final }
    /\ landed' = IF final = Head(q).url THEN landed ELSE landed \cup { final }

\* Lines 286-297: the response has status >= 400.
FetchStatus ==
    /\ GetGuard
    /\ \E raw \in FinalUrls(Head(q).url), status \in StatusCodes, ctype \in ContentTypes :
        /\ IsErrorStatus(status)
        /\ Responded(NormalForm[raw])
        /\ last' = Iteration(Head(q), "response", status, ctype, NormalForm[raw],
                             TRUE, FALSE)
    /\ q' = Tail(q)
    /\ UNCHANGED << cfgVars, queued, all_image_urls, saved, images_saved, pc,
                    appended, appends, start_page, written, pureVars >>

\* Lines 286-300: the response is not HTML.
FetchNonHtml ==
    /\ GetGuard
    /\ \E raw \in FinalUrls(Head(q).url), status \in StatusCodes, ctype \in ContentTypes :
        /\ ~IsErrorStatus(status)
        /\ ~is_html_response(ctype)
        /\ Responded(NormalForm[raw])
        /\ last' = Iteration(Head(q), "response", status, ctype, NormalForm[raw],
                             TRUE, FALSE)
    /\ q' = Tail(q)
    /\ UNCHANGED << cfgVars, queued, all_image_urls, saved, images_saved, pc,
                    appended, appends, start_page, written, pureVars >>

\* Lines 286-308: mkdir or write_text raises OSError, which no handler of
\* crawl_and_save catches (line 332 catches requests.RequestException only).
SaveFails ==
    /\ GetGuard
    /\ \E raw \in FinalUrls(Head(q).url), status \in StatusCodes, ctype \in ContentTypes :
        /\ ~IsErrorStatus(status)
        /\ is_html_response(ctype)
        /\ Responded(NormalForm[raw])
        /\ last' = Iteration(Head(q), "response", status, ctype, NormalForm[raw],
                             FALSE, FALSE)
    /\ q' = Tail(q)
    /\ pc' = "crashed"
    /\ UNCHANGED << cfgVars, queued, all_image_urls, saved, images_saved,
                    appended, appends, start_page, written, pureVars >>

\* Lines 286-330: an HTML page is saved, its images collected, its links enqueued.
FetchSaved ==
    /\ GetGuard
    /\ \E raw \in FinalUrls(Head(q).url), status \in StatusCodes, ctype \in ContentTypes,
          links \in LinkSets, imgs \in ImgSets :
        LET item == Head(q)
            final == NormalForm[raw]
            vis == visited \cup { item.url, final }
        IN  /\ ~IsErrorStatus(status)
            /\ is_html_response(ctype)
            /\ Responded(final)
            /\ saved' = saved + 1
            /\ written' = written \cup { final }
            /\ all_image_urls' = IF download_pics THEN all_image_urls \cup imgs
                                 ELSE all_image_urls
            /\ IF FollowLinks(item.depth)
               THEN \E order \in LinkOrders[links] :
                        LET f == EnqueueAll([ queued |-> queued, q |-> Tail(q),
                                              appended |-> appended, appends |-> appends ],
                                            order, vis, item.depth)
                        IN  /\ queued' = f.queued
                            /\ q' = f.q
                            /\ appended' = f.appended
                            /\ appends' = f.appends
               ELSE /\ queued' = queued
                    /\ q' = Tail(q)
                    /\ UNCHANGED << appended, appends >>
            /\ last' = Iteration(item, "response", status, ctype, final, TRUE,
                                 delay > 0)
            /\ start_page' = IF item.depth = 0
                             THEN [ final |-> final, links |-> links, seen |-> TRUE ]
                             ELSE start_page
    /\ UNCHANGED << cfgVars, images_saved, pc, pureVars >>

\* Line 273: the while condition is false and the loop is left.
LoopExit == pc = "loop" /\ ~WhileCondition

\* Lines 273, 338-352 when no image is to be downloaded: the summary is returned.
ReturnNoImages ==
    /\ LoopExit
    /\ ~(download_pics /\ all_image_urls # {})
    /\ images_saved' = 0
    /\ pc' = "done"
    /\ UNCHANGED << cfgVars, visited, queued, q, all_image_urls, saved, fetched,
                    gets, attempts, appended, appends, last, start_page, written, landed,
                    pureVars >>

(***************************************************************************)
(* download_images                                                         *)
(***************************************************************************)
IMAGE_EXTENSIONS ==
    { << ".", "j", "p", "g" >>, << ".", "j", "p", "e", "g" >>, << ".", "p", "n", "g" >>,
      << ".", "g", "i", "f" >>, << ".", "b", "m", "p" >>, << ".", "s", "v", "g" >>,
      << ".", "w", "e", "b", "p" >>, << ".", "i", "c", "o" >>, << ".", "t", "i", "f", "f" >>,
      << ".", "t", "i", "f" >>, << ".", "a", "v", "i", "f" >>, << ".", "j", "f", "i", "f" >> }

\* Path(urlparse(url).path).name
LastPart(parts) == IF Len(parts) = 0 THEN << >> ELSE parts[Len(parts)]

UrlBasename(url) == LastPart(PathParts(LStrip(urlparse(url).path, "/")))

\* safe_image_filename: sanitized stem, md5 of the URL, suffix.  The md5
\* digest is kept as the URL it was taken of (no two URLs share a digest).
ImageName(url, base) ==
    [ stem |-> Stem(base), md5 |-> url,
      suffix |-> IF Suffix(base) = << >> THEN << ".", "j", "p", "g" >> ELSE Suffix(base) ]

\* Line 176: re.sub(r"[^a-zA-Z0-9._-]", "_", basename)[:200]
SanitizeEach(s) == Truncate([ i \in DOMAIN s |-> IF FileSafe(s[i]) THEN s[i] ELSE "_" ], 200)

\* Lines 171-173: a URL without basename is named after its digest
OrPlaceholder(base) == IF Len(base) = 0 THEN << "i", "m", "a", "g", "e", "_" >> ELSE base

safe_image_filename(url) == ImageName(url, SanitizeEach(OrPlaceholder(UrlBasename(url))))

\* Lines 213-215: the response is of an image content type, or the URL's
\* basename has an image extension.
ImageWritten(url, typed) ==
    typed \/ Suffix(UrlBasename(url)) \in IMAGE_EXTENSIONS

\* Lines 273, 338-352 with images: download_images runs to its end and the
\* summary is returned.  answered are the images whose file is not there yet
\* and whose GET returns a status below 400 (lines 205-211; the others are
\* skipped), typed those of them served with an image content type.
DownloadImages ==
    /\ LoopExit
    /\ download_pics /\ all_image_urls # {}
    /\ \E answered \in SUBSET all_image_urls :
        \E typed \in SUBSET answered :
            images_saved' =
                Cardinality({ safe_image_filename(u) :
                    u \in { w \in answered : ImageWritten(w, w \in typed) } })
    /\ pc' = "done"
    /\ UNCHANGED << cfgVars, visited, queued, q, all_image_urls, saved, fetched,
                    gets, attempts, appended, appends, last, start_page, written, landed,
                    pureVars >>

\* Lines 273, 194, 217: pictures_dir.mkdir or open(dest, "wb") raises OSError,
\* which nothing catches.
DownloadFails ==
    /\ LoopExit
    /\ download_pics /\ all_image_urls # {}
    /\ pc' = "crashed"
    /\ UNCHANGED << cfgVars, crawlVars, pureVars >>

Next ==
    \/ SkipTask
    \/ FetchError
    \/ FetchStatus
    \/ FetchNonHtml
    \/ SaveFails
    \/ FetchSaved
    \/ ReturnNoImages
    \/ DownloadImages
    \/ DownloadFails

Spec == Init /\ [][Next]_vars

\* Every call of the single flow returns: the flow always takes its next step.
FairSpec == Spec /\ WF_vars(Next)

(***************************************************************************)
(* C1 .. C8: the crawl                                                     *)
(***************************************************************************)
Crawling == pc \in { "loop", "done", "crashed" }

GetUrls == { g.url : g \in gets }

QueueUrls == { q[i].url : i \in DOMAIN q }

\* C1: a run issues at most max_pages page GETs, whatever the outcomes of
\* the fetches (success, status >= 400, non-HTML, transport error).
C1_GetsWithinMaxPages == Crawling => attempts <= max_pages

\* C2: every normalized URL is put on the queue at most once and is
\* requested at most once, however often and under whatever spellings it
\* is linked, and also after its fetch failed.
C2_EachUrlOnce ==
    Crawling =>
        /\ attempts = Cardinality(GetUrls)
        /\ appends = Cardinality(appended)
        /\ \A i, j \in DOMAIN q : q[i].url = q[j].url => i = j
        /\ QueueUrls \cap GetUrls = {}

\* A page linking back to the start page and to /a under two spellings was
\* saved, three GETs were issued and the last of them failed.
C2_Witness ==
    /\ start_page.seen
    /\ start_page.links = BackLinks
    /\ max_depth > 0
    /\ last.got = "error"
    /\ attempts = 3
    /\ U_a \in GetUrls

\* C3: no task deeper than max_depth is enqueued or fetched, so the links
\* of a page at depth max_depth are not enqueued; with max_depth = 0
\* only the start URL is fetched.
C3_DepthBound ==
    Crawling =>
        /\ \A i \in DOMAIN q : q[i].depth <= max_depth
        /\ \A g \in gets : g.depth <= max_depth
        /\ max_depth = 0 => GetUrls \subseteq { start_url }
        /\ max_depth = 0 => appended = { start_url }

\* With max_depth = 0 the start page, which carries four links, was saved,
\* and the run ended after that one GET.
C3_Witness ==
    /\ max_depth = 0
    /\ ~same_domain_only
    /\ start_page.seen
    /\ start_page.links = ScenarioLinks
    /\ pc = "done"
    /\ attempts = 1
    /\ saved = 1

\* The start page links to three same-origin pages and one off-origin page,
\* with max_depth = 1 and same-origin-only; no response was redirected to
\* another URL (a redirect marks its target visited before any GET of it).
Scenario ==
    /\ same_domain_only
    /\ max_depth = 1
    /\ max_pages >= 4
    /\ start_page.seen
    /\ start_page.links = ScenarioLinks
    /\ visited = GetUrls

\* C4: with same-origin-only, no URL of another authority than the start
\* URL's is put on the queue or requested; in the scenario exactly four
\* GETs are issued.
C4_SameOriginOnly ==
    (Crawling /\ same_domain_only) =>
        /\ \A u \in appended \cup QueueUrls \cup GetUrls : Netloc[u] = Netloc[start_url]
        /\ (Scenario /\ pc = "done") =>
              /\ attempts = 4
              /\ GetUrls = { U_root, U_a, U_b, U_c }

C4_Witness == Scenario /\ pc = "done" /\ attempts = 4 /\ U_off \notin appended

\* C5: the crawl loop always terminates, and when the loop is left by its
\* condition the queue is empty or fetched >= max_pages.
C5_Terminates ==
    /\ <>(pc \in { "done", "crashed" })
    /\ [](pc = "done" => (Len(q) = 0 \/ fetched >= max_pages))

\* The budget ended the run with tasks left on the queue.
C5_Witness == pc = "done" /\ Len(q) > 0 /\ fetched = max_pages /\ attempts > fetched

\* C6: a response of status >= 400, or of a content type that is not HTML,
\* adds one to fetched and leaves saved, queued and the image URLs as they
\* were; nothing is put on the queue and the loop goes on.
C6_ErrorPageOnlyCounted ==
    [][ ( /\ attempts' = attempts + 1
          /\ last'.got = "response"
          /\ \/ last'.status >= 400
             \/ last'.ctype \notin { "text/html; charset=utf-8", "application/xhtml+xml" } )
        => ( /\ fetched' = fetched + 1
             /\ saved' = saved
             /\ q' = Tail(q)
             /\ queued' = queued
             /\ all_image_urls' = all_image_urls
             /\ pc' = "loop" ) ]_vars

\* After a saved page, a 404 was counted and not saved, and the crawl has
\* a next task to go on with.
C6_Witness ==
    /\ pc = "loop"
    /\ last.got = "response"
    /\ last.status = 404
    /\ fetched = 2
    /\ saved = 1
    /\ WhileCondition

\* C7: no error met on one page or image ends the crawl: crawl_and_save
\* always goes on and returns its summary.
C7_ItemErrorsNotFatal == pc # "crashed"

\* C8: 0 <= saved <= fetched <= max_pages in every state of the crawl,
\* the returned summary included.
C8_CountersOrdered ==
    Crawling => (0 <= saved /\ saved <= fetched /\ fetched <= max_pages)

\* The run returned with the budget used up, a fetched page that was not
\* saved, and tasks left.
C8_Witness ==
    /\ pc = "done"
    /\ max_pages >= 2
    /\ fetched = max_pages
    /\ 0 < saved
    /\ saved < fetched
    /\ Len(q) > 0

(***************************************************************************)
(* C11 .. C20                                                              *)
(***************************************************************************)
\* The tasks a step put on the queue: what q' holds behind Tail(q).
Appended(old, new) ==
    IF new = old THEN { } ELSE { new[i].url : i \in Len(old) .. Len(new) }

\* C11: at the start the queue holds exactly the normalized start URL at
\* depth 0 and queued contains it; in every state the URL of every task of
\* the queue is in queued and no two tasks of the queue have one URL; no
\* step appends a URL that is in queued or visited.
C11_FrontierConsistent ==
    /\ [](Crawling =>
            /\ (attempts = 0 /\ last = NoIteration) =>
                    (q = << CrawlItem(start_url, 0) >> /\ start_url \in queued)
            /\ QueueUrls \subseteq queued
            /\ \A i, j \in DOMAIN q : q[i].url = q[j].url => i = j)
    /\ [][ Crawling => Appended(q, q') \cap (queued \cup visited') = { } ]_vars

\* The start page linked back to itself and to /a with one and with two
\* trailing slashes: two tasks were appended, the start URL was not.
C11_Witness ==
    /\ start_page.seen
    /\ start_page.links = BackLinks
    /\ attempts = 1
    /\ appends = 3
    /\ Len(q) = 2
    /\ start_url \in visited \cap queued
    /\ start_url \notin QueueUrls

\* C13: once a task has been handled its URL is in visited and no longer
\* in queued: visited and queued are disjoint between loop iterations.
C13_VisitedLeavesQueued ==
    Crawling => visited \cap queued = { }

\* The dequeue guard of lines 278-279 fires on the task at the head of the queue.
GuardFires == LoopGuard /\ Head(q).url \in visited

C15_DelayBetweenGets ==
    (delay > 0 /\ last.got \in { "error", "response" } /\ GetGuard) => last.slept

\* C16: after a fetch of U that ends at the final URL F, U and F are in
\* visited (and stay there); no step appends a task for a visited URL; a
\* queued task whose URL is visited is dropped with no GET and with
\* fetched unchanged.
C16_RedirectMarksBothVisited ==
    /\ [](Crawling =>
            /\ last.got = "response" => { last.url, last.final } \subseteq visited
            /\ GetUrls \cup landed \subseteq visited)
    /\ [][ Crawling =>
            /\ Appended(q, q') \cap visited' = { }
            /\ GuardFires =>
                 \/ UNCHANGED vars
                 \/ /\ q' = Tail(q)
                    /\ attempts' = attempts
                    /\ gets' = gets
                    /\ fetched' = fetched
                    /\ saved' = saved ]_vars

\* /b answered from /a/ while the task of /a was queued; that task was then
\* dropped: the last iteration handled /a with no GET, and /a was never
\* requested.
C16_Witness ==
    /\ last.url = U_a
    /\ last.got = "none"
    /\ U_a \in landed
    /\ U_b \in GetUrls
    /\ U_a \notin GetUrls
    /\ { U_a, U_b } \subseteq visited
    /\ fetched = attempts

\* normalize_url over the image URLs of the site.
ImageNormalForm == [ u \in UNION ImgSets |-> normalize_url(u) ]

\* C17: the set handed to download_images holds at most one URL per normal
\* form, and no more images are written than it has normal forms.
C17_ImagesOncePerNormalForm ==
    Crawling =>
        /\ \A u, v \in all_image_urls :
                ImageNormalForm[u] = ImageNormalForm[v] => u = v
        /\ pc = "done" =>
                images_saved <= Cardinality({ ImageNormalForm[u] : u \in all_image_urls })

\* s is the start of t.
IsPrefix(s, t) == Len(s) <= Len(t) /\ \A i \in DOMAIN s : t[i] = s[i]

\* C18: the crawl is breadth-first: the task handled is the head of the
\* queue and new tasks go behind the waiting ones, so tasks leave the queue
\* in the order they entered it; the depths of the tasks handled one after
\* the other never decrease, and no waiting task is shallower than a task
\* before it in the queue or than the task handled last.
C18_BreadthFirst ==
    /\ [](Crawling =>
            /\ \A i, j \in DOMAIN q : i < j => q[i].depth <= q[j].depth
            /\ \A i \in DOMAIN q : last.depth <= q[i].depth)
    /\ [][ (Crawling /\ q' # q) =>
            /\ last'.url = Head(q).url
            /\ last'.depth = Head(q).depth
            /\ last.depth <= last'.depth
            /\ IsPrefix(Tail(q), q') ]_vars

\* A task of depth 2 was requested after tasks of depth 1, with max_depth = 2.
C18_Witness ==
    /\ last.depth = 2
    /\ last.got = "response"
    /\ Cardinality({ g \in gets : g.depth = 1 }) >= 2
    /\ Cardinality({ g \in gets : g.depth = 2 }) = 1

\* C19: every normalized final URL is saved at most once in a run, so saved
\* is the number of distinct pages written.
C19_SavedOncePerFinalUrl ==
    Crawling => saved = Cardinality(written)

\* C20: with same-origin-only, every page written (and so every page whose
\* links and images are extracted) has a final URL of the start URL's
\* authority.
C20_SavedPagesSameOrigin ==
    (Crawling /\ same_domain_only) =>
        \A u \in written : Netloc[u] = Netloc[start_url]

(***************************************************************************)
(* normalize_url and safe_filename_from_url run on their own               *)
(***************************************************************************)
\* Bounds of the URLs given to normalize_url.
MaxPathLen == 4

MaxQueryLen == 3

\* Bound of the queries given to safe_filename_from_url.
MaxNameQueryLen == 3

SeqsUpTo(chars, n) == UNION { [ 1 .. k -> chars ] : k \in 0 .. n }

PathInputs ==
    { << >> } \cup { << "/" >> \o s : s \in SeqsUpTo({ "/", "a" }, MaxPathLen - 1) }

QueryInputs ==
    { << >> } \cup { << "?" >> \o s : s \in SeqsUpTo({ "a", "b", "=", "&" }, MaxQueryLen) }

FragmentInputs == { << >>, << "#", "f" >> }

NormalizeInputs ==
    { Http \o << "x" >> \o p \o qs \o f :
        p \in PathInputs, qs \in QueryInputs, f \in FragmentInputs }

NamePaths == { << "/" >>, << "/", "a" >>, << "/", "a", "/", "b" >>, << "/", "a", ".", "b" >> }

NameQueries ==
    { << >> } \cup { << "?" >> \o s : s \in SeqsUpTo({ "a", "_", "=" }, MaxNameQueryLen) }

\* Pairs of URLs of one path.
NameInputs ==
    { << Http \o << "x" >> \o p \o q1, Http \o << "x" >> \o p \o q2 >> :
        p \in NamePaths, q1 \in NameQueries, q2 \in NameQueries }

\* No crawl is running.
NoCrawl ==
    /\ start_url = U_root
    /\ max_depth = 0
    /\ max_pages = 1
    /\ delay = 0
    /\ same_domain_only = TRUE
    /\ download_pics = FALSE
    /\ visited = {}
    /\ queued = {}
    /\ q = << >>
    /\ all_image_urls = {}
    /\ saved = 0
    /\ fetched = 0
    /\ images_saved = 0
    /\ gets = {}
    /\ attempts = 0
    /\ appended = {}
    /\ appends = 0
    /\ last = NoIteration
    /\ start_page = NoPage
    /\ written = {}
    /\ landed = {}

InitNormalize ==
    /\ NoCrawl
    /\ pc = "normalize"
    /\ \E u \in NormalizeInputs : arg = << u >>
    /\ out = << >>

\* normalize_url(u)
NormalizeOnce ==
    /\ pc = "normalize"
    /\ Len(out) = 0
    /\ out' = << normalize_url(arg[1]) >>
    /\ UNCHANGED << cfgVars, crawlVars, pc, arg >>

\* normalize_url(normalize_url(u))
NormalizeAgain ==
    /\ pc = "normalize"
    /\ Len(out) = 1
    /\ out' = Append(out, normalize_url(out[1]))
    /\ UNCHANGED << cfgVars, crawlVars, pc, arg >>

NextNormalize == NormalizeOnce \/ NormalizeAgain

SpecNormalize == InitNormalize /\ [][NextNormalize]_vars

InitName ==
    /\ NoCrawl
    /\ pc = "filename"
    /\ arg \in NameInputs
    /\ out = << >>

\* The two URLs are normalized, as crawl_and_save does before mapping (line 290).
NormalizeBoth ==
    /\ pc = "filename"
    /\ Len(out) = 0
    /\ out' = << normalize_url(arg[1]), normalize_url(arg[2]) >>
    /\ UNCHANGED << cfgVars, crawlVars, pc, arg >>

\* safe_filename_from_url of both (line 305)
MapBoth ==
    /\ pc = "filename"
    /\ Len(out) = 2
    /\ out' = out \o << safe_filename_from_url(out[1]), safe_filename_from_url(out[2]) >>
    /\ UNCHANGED << cfgVars, crawlVars, pc, arg >>

NextName == NormalizeBoth \/ MapBoth

SpecName == InitName /\ [][NextName]_vars

(***************************************************************************)
(* C9, C10: the pure functions                                             *)
(***************************************************************************)
\* C9: normalize_url is idempotent: normalizing a normalized URL gives it
\* back, for every URL.
C9_NormalizeIdempotent ==
    (pc = "normalize" /\ Len(out) = 2) => out[2] = out[1]

\* C10: two distinct normalized URLs of one path and different query
\* strings are mapped to two distinct local paths.
C10_DistinctQueryDistinctFile ==
    ( /\ pc = "filename"
      /\ Len(out) = 4
      /\ out[1] # out[2]
      /\ urlparse(out[1]).path = urlparse(out[2]).path
      /\ urlparse(out[1]).query # urlparse(out[2]).query )
        => out[3] # out[4]


(***************************************************************************)
(* C12: two runs over one site.  The start page of the site carries the    *)
(* links arg[1], every page answers 200 HTML and no other page has links;  *)
(* out collects, per run, the URLs requested in their order.               *)
(***************************************************************************)
IdleCrawl ==
    /\ visited = {}
    /\ queued = {}
    /\ q = << >>
    /\ all_image_urls = {}
    /\ saved = 0
    /\ fetched = 0
    /\ images_saved = 0
    /\ gets = {}
    /\ attempts = 0
    /\ appended = {}
    /\ appends = 0
    /\ last = NoIteration
    /\ start_page = NoPage
    /\ written = {}
    /\ landed = {}

InitRuns ==
    /\ start_url = U_root
    /\ max_depth = 1
    /\ max_pages \in 1 .. MaxPagesBound
    /\ delay = 0
    /\ same_domain_only \in BOOLEAN
    /\ download_pics = FALSE
    /\ IdleCrawl
    /\ pc = "runs"
    /\ \E links \in LinkSets : arg = << links >>
    /\ out = << >>

\* Lines 263-265: the frontier when the start page has been popped.
StartFrontier ==
    [ queued |-> { start_url }, q |-> << >>, appended |-> { start_url }, appends |-> 1 ]

UrlsOf(items) == [ i \in DOMAIN items |-> items[i].url ]

\* Lines 273-327 on this site: the start page, then the tasks its links gave,
\* in queue order, while fetched < max_pages.
Requested(order) ==
    Truncate(<< start_url >> \o
             UrlsOf(EnqueueAll(StartFrontier, order, { start_url }, 0).q),
             max_pages)

\* One run of crawl_and_save; the set extract_links returns is iterated in
\* the order the interpreter's string hashing of that run gives it.
RunCrawl ==
    /\ pc = "runs"
    /\ Len(out) < 2
    /\ \E order \in LinkOrders[arg[1]] : out' = Append(out, Requested(order))
    /\ UNCHANGED << cfgVars, crawlVars, pc, arg >>

NextRuns == RunCrawl

SpecRuns == InitRuns /\ [][NextRuns]_vars

\* C12: two runs over the same site with the same configuration request
\* the same pages in the same order, also when max_pages cuts the crawl.
C12_Deterministic ==
    (pc = "runs" /\ Len(out) = 2) => out[1] = out[2]

=============================================================================
